---- MODULE Spec2Model ----
(***************************************************************************)
(* Model of relayer/chain/parachain/writer.go: the parachain Writer.       *)
(*                                                                         *)
(* Processes:                                                              *)
(*   - the caller of Start (registry population, launch of the loop),      *)
(*   - the write loop goroutine (writeLoop, the two Write* methods,        *)
(*     onDone), split at its suspension points: the select, the two        *)
(*     contract-binding calls, the send on wr.beefy, the receive in        *)
(*     onDone's range,                                                     *)
(*   - the environment: the producer of wr.messages, the consumer of       *)
(*     wr.beefy, and whoever cancels ctx.                                  *)
(*                                                                         *)
(* A batch travels through wr.messages unread, and its elements are read   *)
(* only by the range loop of writeLoop, one at a time.  The model          *)
(* therefore keeps the number of batches buffered in the channel, draws    *)
(* the length of a batch when it is received and draws each element when  *)
(* the range loop reaches it.                                              *)
(***************************************************************************)
EXTENDS Integers, Sequences, FiniteSets, TLC

\* ------------------------------------------------------------- bounds
MaxBatches == 3       \* batches the producer sends before it stops
MaxBatchLen == 3      \* records per batch
MsgCap == 1           \* buffer capacity of wr.messages
BeefyCap == 1         \* buffer capacity of wr.beefy

\* ------------------------------------------------------------- values
LightClientBridgeContractID == "lightclientbridge"

Nil == "nil"
Contract == "contract"
NoTx == "0x0"
TxHashes == {"0xa1", "0xb2"}
Payloads == {"P1", "P2"}

CommitmentWitnessed == "CommitmentWitnessed"
InitialVerificationTxSent == "InitialVerificationTxSent"
InitialVerificationTxConfirmed == "InitialVerificationTxConfirmed"
ReadyToComplete == "ReadyToComplete"
\* any status value the switch of writeLoop has no case for
OtherStatus == "OtherStatus"

Statuses ==
    {CommitmentWitnessed, InitialVerificationTxSent,
     InitialVerificationTxConfirmed, ReadyToComplete, OtherStatus}

\* parachain.BeefyCommitmentInfo values as they arrive in a batch
BeefyCommitmentInfo ==
    [kind : {"BeefyCommitmentInfo"}, Status : Statuses,
     Payload : Payloads, InitialVerificationTxHash : {NoTx}]

\* a chain.Message of some other dynamic type
OtherMessage ==
    [kind |-> "other", Status |-> "none", Payload |-> "none",
     InitialVerificationTxHash |-> NoTx]

\* what a batch element can be
Messages == BeefyCommitmentInfo \cup {OtherMessage}

\* no element read yet
NoMsg ==
    [kind |-> "none", Status |-> "none", Payload |-> "none",
     InitialVerificationTxHash |-> NoTx]

InvalidMessage == "Invalid message"
UnknownContract == "Unknown contract"
BuilderError == "builder error"
SubmitError == "submit error"
Canceled == "context canceled"

VARIABLES
    contracts,   \* wr.contracts: identifier -> binding, or Nil
    start,       \* caller: "new", "ok" (Start returned nil), "failed"
                 \* (Start returned the error), "direct" (loop run without Start)
    cancelled,   \* ctx has been cancelled
    messages,    \* number of batches buffered in wr.messages
    closed,      \* wr.messages has been closed by the producer
    ppc,         \* producer: "idle", "sending" (blocked in a send), "closed"
    produced,    \* sends the producer has begun
    beefy,       \* buffer of wr.beefy
    wpc,         \* write loop: "idle", "select", "range", "newTx", "send",
                 \* "completeTx", "drain", "returned"
    msgsLen,     \* len(msgs) of the batch being ranged over
    idx,         \* elements of msgs the range has reached
    msg,         \* the element the range is at
    beefyInfo,   \* the by-value copy the Write* method works on
    tx,          \* hash of the transaction the binding returned
    err,         \* err of the Write* call made for msg ("none": no call)
    built,       \* err of the builder call made for msg ("none": no call)
    ret,         \* value writeLoop returned ("none": still running)
    \* history
    calls,       \* builder and binding calls made for msg, in order
    emitted,     \* records sent on wr.beefy for msg, in order
    observed,    \* the select took the ctx.Done() case
    late,        \* the batch being ranged over was received after cancellation
    cancelAt,    \* wpc at the moment of cancellation ("none" before)
    discarded,   \* batches onDone received and discarded
    unreported   \* successful returns of NewSignatureCommitment minus sends
                 \* made on wr.beefy

vars ==
    <<contracts, start, cancelled, messages, closed, ppc, produced, beefy,
      wpc, msgsLen, idx, msg, beefyInfo, tx, err, ret,
      built, calls, emitted, observed, late, cancelAt, discarded, unreported>>

callerVars == <<contracts, start>>
chanVars == <<messages, closed, ppc, produced>>
recordVars == <<msg, beefyInfo, tx, err, built, calls, emitted>>
loopVars == <<msgsLen, idx, late>>
histVars == <<observed, cancelAt, discarded, unreported>>

Init ==
    /\ contracts = [id \in {LightClientBridgeContractID} |-> Nil]
    /\ start = "new"
    /\ cancelled = FALSE
    /\ messages = 0
    /\ closed = FALSE
    /\ ppc = "idle"
    /\ produced = 0
    /\ beefy = <<>>
    /\ wpc = "idle"
    /\ msgsLen = 0
    /\ idx = 0
    /\ msg = NoMsg
    /\ beefyInfo = NoMsg
    /\ tx = NoTx
    /\ err = "none"
    /\ ret = "none"
    /\ calls = <<>>
    /\ emitted = <<>>
    /\ observed = FALSE
    /\ late = FALSE
    /\ cancelAt = "none"
    /\ discarded = 0
    /\ built = "none"
    /\ unreported = 0

\* ------------------------------------------------------------- context
\* ctx.Err(): nil until the context is cancelled
ctxErr == IF cancelled THEN Canceled ELSE Nil

\* cancellation of ctx by its owner, at any time
Cancel ==
    /\ ~cancelled
    /\ cancelled' = TRUE
    /\ cancelAt' = wpc
    /\ UNCHANGED <<callerVars, chanVars, beefy, wpc, loopVars, recordVars,
                   ret, observed, discarded, unreported>>

\* ------------------------------------------------------------- caller
\* mutant of Start: the error of NewContract is not returned and the loop is
\* launched all the same
StartIgnoresError ==
    /\ start = "new"
    /\ \E e \in {Nil, "error"} :
         IF e # Nil
         THEN /\ start' = "failed"
              /\ wpc' = "select"
              /\ UNCHANGED contracts
         ELSE /\ contracts' =
                    [contracts EXCEPT ![LightClientBridgeContractID] = Contract]
              /\ wpc' = "select"
              /\ start' = "ok"
    /\ UNCHANGED <<cancelled, chanVars, beefy, loopVars, recordVars, ret,
                   histVars>>

\* mutant of Start: the binding is not stored in the registry
StartWithoutRegistry ==
    /\ start = "new"
    /\ \E e \in {Nil, "error"} :
         IF e # Nil
         THEN /\ start' = "failed"
              /\ UNCHANGED <<contracts, wpc>>
         ELSE /\ UNCHANGED contracts
              /\ wpc' = "select"
              /\ start' = "ok"
    /\ UNCHANGED <<cancelled, chanVars, beefy, loopVars, recordVars, ret,
                   histVars>>

\* Start: NewContract fails and Start returns the error, or the binding is
\* stored in the registry and the loop is launched with eg.Go
Start ==
    /\ start = "new"
    /\ \E e \in {Nil, "error"} :
         IF e # Nil
         THEN /\ start' = "failed"
              /\ UNCHANGED <<contracts, wpc>>
         ELSE /\ contracts' =
                    [contracts EXCEPT ![LightClientBridgeContractID] = Contract]
              /\ wpc' = "select"
              /\ start' = "ok"
    /\ UNCHANGED <<cancelled, chanVars, beefy, loopVars, recordVars, ret,
                   histVars>>

\* writeLoop entered on a Writer whose Start was not called: the registry is
\* as NewWriter received it
RunWithoutStart ==
    /\ start = "new"
    /\ start' = "direct"
    /\ wpc' = "select"
    /\ UNCHANGED <<contracts, cancelled, chanVars, beefy, loopVars, recordVars,
                   ret, histVars>>

\* ------------------------------------------------------------- producer
\* the producer begins a send on wr.messages
ProducerSend ==
    /\ ppc = "idle"
    /\ produced < MaxBatches
    /\ ppc' = "sending"
    /\ produced' = produced + 1
    /\ UNCHANGED <<callerVars, cancelled, messages, closed, beefy, wpc,
                   loopVars, recordVars, ret, histVars>>

\* a blocked send completes into the buffer once it has room
ProducerEnqueue ==
    /\ ppc = "sending"
    /\ messages < MsgCap
    /\ messages' = messages + 1
    /\ ppc' = "idle"
    /\ UNCHANGED <<callerVars, cancelled, closed, produced, beefy, wpc,
                   loopVars, recordVars, ret, histVars>>

\* the producer closes wr.messages
ProducerClose ==
    /\ ppc = "idle"
    /\ closed' = TRUE
    /\ ppc' = "closed"
    /\ UNCHANGED <<callerVars, cancelled, messages, produced, beefy, wpc,
                   loopVars, recordVars, ret, histVars>>

\* the consumer of wr.beefy receives one record
BeefyRecv ==
    /\ beefy # <<>>
    /\ beefy' = Tail(beefy)
    /\ UNCHANGED <<callerVars, cancelled, chanVars, wpc, loopVars, recordVars,
                   ret, histVars>>

\* ------------------------------------------------------------- channel
\* a receive on wr.messages yields a batch: from the buffer, or handed over
\* by a blocked sender
GotBatch == messages > 0 \/ ppc = "sending"

\* a receive on wr.messages can proceed: a batch, or the zero value of a
\* closed channel
CanRecv == GotBatch \/ closed

\* the effect of the receive on the channel
ChanRecv ==
    /\ IF messages > 0
       THEN messages' = messages - 1 /\ ppc' = ppc
       ELSE IF ppc = "sending"
            THEN ppc' = "idle" /\ messages' = messages
            ELSE UNCHANGED <<messages, ppc>>
    /\ UNCHANGED <<closed, produced>>

\* ------------------------------------------------------------- write loop
\* the per-record state before the range loop reads an element
ResetRecord ==
    /\ msg' = NoMsg
    /\ beefyInfo' = NoMsg
    /\ tx' = NoTx
    /\ err' = "none"
    /\ built' = "none"
    /\ calls' = <<>>
    /\ emitted' = <<>>

\* select, case <-ctx.Done(): the loop leaves for onDone
writeLoopDone ==
    /\ wpc = "select"
    /\ cancelled
    /\ wpc' = "drain"
    /\ observed' = TRUE
    /\ UNCHANGED <<callerVars, cancelled, chanVars, beefy, loopVars,
                   recordVars, ret, cancelAt, discarded, unreported>>

\* select, case msgs := <-wr.messages: a batch, or nil from a closed channel.
\* When both cases are ready the select takes either.
writeLoopRecv ==
    /\ wpc = "select"
    /\ CanRecv
    /\ ChanRecv
    /\ \E n \in (IF GotBatch THEN 0..MaxBatchLen ELSE {0}) : msgsLen' = n
    /\ idx' = 0
    /\ late' = cancelled
    /\ wpc' = "range"
    /\ ResetRecord
    /\ UNCHANGED <<callerVars, cancelled, beefy, ret, histVars>>

\* mutant of IsBeefyCommitmentInfo: the ok of the type assertion is ignored
AssertionUnchecked(m) == TRUE

\* beefyInfo, ok := msg.(parachain.BeefyCommitmentInfo)
IsBeefyCommitmentInfo(m) == m.kind = "BeefyCommitmentInfo"

\* mutant of Branch: the InitialVerificationTxSent case label has slipped
\* into the CommitmentWitnessed case
BranchSentAsWitnessed(status) ==
    CASE status \in {CommitmentWitnessed, InitialVerificationTxSent} -> "new"
      [] status = InitialVerificationTxConfirmed -> "skip"
      [] status = ReadyToComplete -> "complete"
      [] OTHER -> "default"

\* mutant of Branch: the ReadyToComplete case calls what the
\* CommitmentWitnessed case calls
BranchReadyAsWitnessed(status) ==
    CASE status \in {CommitmentWitnessed, ReadyToComplete} -> "new"
      [] status \in {InitialVerificationTxSent, InitialVerificationTxConfirmed}
           -> "skip"
      [] OTHER -> "default"

\* switch beefyInfo.Status
Branch(status) ==
    CASE status = CommitmentWitnessed -> "new"
      [] status \in {InitialVerificationTxSent, InitialVerificationTxConfirmed}
           -> "skip"
      [] status = ReadyToComplete -> "complete"
      [] OTHER -> "default"

\* mutant of LogInvalidStatus: the default case returns an error
ReturnInvalidStatus ==
    /\ wpc' = "returned"
    /\ ret' = "Invalid beefy commitment status"

\* default: wr.log.Info("Invalid beefy commitment status"), and the range
\* loop goes on
LogInvalidStatus ==
    /\ wpc' = "range"
    /\ ret' = ret

\* mutant of Logged: the error of a Write* call is returned from writeLoop
ReturnedIfError(e) ==
    IF e = Nil
    THEN wpc' = "range" /\ ret' = ret
    ELSE wpc' = "returned" /\ ret' = e

\* mutant of Logged: a failed call of the binding is made again
RetriedIfSubmitError(e) ==
    IF e = SubmitError
    THEN wpc' = wpc /\ ret' = ret
    ELSE wpc' = "range" /\ ret' = ret

\* if err != nil { log }: the error of a Write* call is logged and the range
\* loop goes on
Logged(e) ==
    /\ wpc' = "range"
    /\ ret' = ret

\* mutant of WriteNewSignatureCommitment: the contract == nil check is
\* missing and the binding is called whatever the lookup gave
WriteNewWithoutLookup ==
    \E b \in {Nil, BuilderError} :
        IF b # Nil
        THEN /\ calls' = <<"BuildNewSignatureCommitmentMessage">>
             /\ built' = b
             /\ err' = b
             /\ Logged(b)
        ELSE /\ calls' = <<"BuildNewSignatureCommitmentMessage",
                           "NewSignatureCommitment">>
             /\ built' = Nil
             /\ err' = "none"
             /\ wpc' = "newTx"
             /\ ret' = ret

\* WriteNewSignatureCommitment up to the call of the binding: the builder,
\* then the registry lookup
WriteNewSignatureCommitment ==
    \E b \in {Nil, BuilderError} :
        IF b # Nil
        THEN /\ calls' = <<"BuildNewSignatureCommitmentMessage">>
             /\ built' = b
             /\ err' = b
             /\ Logged(b)
        ELSE IF contracts[LightClientBridgeContractID] = Nil
        THEN /\ calls' = <<"BuildNewSignatureCommitmentMessage">>
             /\ built' = Nil
             /\ err' = UnknownContract
             /\ Logged(UnknownContract)
        ELSE /\ calls' = <<"BuildNewSignatureCommitmentMessage",
                           "NewSignatureCommitment">>
             /\ built' = Nil
             /\ err' = "none"
             /\ wpc' = "newTx"
             /\ ret' = ret

\* WriteCompleteSignatureCommitment up to the call of the binding
WriteCompleteSignatureCommitment ==
    \E b \in {Nil, BuilderError} :
        IF b # Nil
        THEN /\ calls' = <<"BuildCompleteSignatureCommitmentMessage">>
             /\ built' = b
             /\ err' = b
             /\ Logged(b)
        ELSE IF contracts[LightClientBridgeContractID] = Nil
        THEN /\ calls' = <<"BuildCompleteSignatureCommitmentMessage">>
             /\ built' = Nil
             /\ err' = UnknownContract
             /\ Logged(UnknownContract)
        ELSE /\ calls' = <<"BuildCompleteSignatureCommitmentMessage",
                           "CompleteSignatureCommitment">>
             /\ built' = Nil
             /\ err' = "none"
             /\ wpc' = "completeTx"
             /\ ret' = ret

\* mutant of writeLoopRange: the Write* call runs in a goroutine of its own
\* and the range takes the next element while the binding is still called
writeLoopRangeAsync ==
    /\ wpc \in {"range", "newTx", "completeTx"}
    /\ idx < msgsLen
    /\ idx' = idx + 1
    /\ \E m \in Messages :
         /\ msg' = m
         /\ tx' = NoTx
         /\ emitted' = <<>>
         /\ IF ~IsBeefyCommitmentInfo(m)
            THEN /\ wpc' = "returned"
                 /\ ret' = InvalidMessage
                 /\ beefyInfo' = NoMsg
                 /\ err' = "none"
                 /\ built' = "none"
                 /\ calls' = <<>>
            ELSE /\ beefyInfo' = m
                 /\ CASE Branch(m.Status) = "new" ->
                           WriteNewSignatureCommitment
                      [] Branch(m.Status) = "complete" ->
                           WriteCompleteSignatureCommitment
                      [] Branch(m.Status) = "skip" ->
                           /\ calls' = <<>>
                           /\ err' = "none"
                           /\ built' = "none"
                           /\ wpc' = "range"
                           /\ ret' = ret
                      [] OTHER ->
                           /\ calls' = <<>>
                           /\ err' = "none"
                           /\ built' = "none"
                           /\ LogInvalidStatus
    /\ UNCHANGED <<callerVars, cancelled, chanVars, beefy, msgsLen, late,
                   histVars>>

\* one iteration of for _, msg := range msgs, up to the point where it
\* returns, finishes the record or waits for the binding
writeLoopRange ==
    /\ wpc = "range"
    /\ idx < msgsLen
    /\ idx' = idx + 1
    /\ \E m \in Messages :
         /\ msg' = m
         /\ tx' = NoTx
         /\ emitted' = <<>>
         /\ IF ~IsBeefyCommitmentInfo(m)
            THEN /\ wpc' = "returned"
                 /\ ret' = InvalidMessage
                 /\ beefyInfo' = NoMsg
                 /\ err' = "none"
                 /\ built' = "none"
                 /\ calls' = <<>>
            ELSE /\ beefyInfo' = m
                 /\ CASE Branch(m.Status) = "new" ->
                           WriteNewSignatureCommitment
                      [] Branch(m.Status) = "complete" ->
                           WriteCompleteSignatureCommitment
                      [] Branch(m.Status) = "skip" ->
                           /\ calls' = <<>>
                           /\ err' = "none"
                           /\ built' = "none"
                           /\ wpc' = "range"
                           /\ ret' = ret
                      [] OTHER ->
                           /\ calls' = <<>>
                           /\ err' = "none"
                           /\ built' = "none"
                           /\ LogInvalidStatus
    /\ UNCHANGED <<callerVars, cancelled, chanVars, beefy, msgsLen, late,
                   histVars>>

\* the range over msgs is exhausted: back to the select
writeLoopRangeEnd ==
    /\ wpc = "range"
    /\ idx = msgsLen
    /\ wpc' = "select"
    /\ msgsLen' = 0
    /\ idx' = 0
    /\ late' = FALSE
    /\ ResetRecord
    /\ UNCHANGED <<callerVars, cancelled, chanVars, beefy, ret, histVars>>

\* mutant of SentInfo: the status is left as it was
SentInfoHashOnly(info, h) ==
    [info EXCEPT !.InitialVerificationTxHash = h]

\* beefyInfo.Status = InitialVerificationTxSent;
\* beefyInfo.InitialVerificationTxHash = tx.Hash()
SentInfo(info, h) ==
    [info EXCEPT !.Status = InitialVerificationTxSent,
                 !.InitialVerificationTxHash = h]

\* contract.NewSignatureCommitment returns: an error, which
\* WriteNewSignatureCommitment returns, or the transaction
NewSignatureCommitmentReturn ==
    /\ wpc = "newTx"
    /\ \E r \in TxHashes \cup {"error"} :
         IF r = "error"
         THEN /\ err' = SubmitError
              /\ Logged(SubmitError)
              /\ UNCHANGED <<tx, beefyInfo, unreported>>
         ELSE /\ tx' = r
              /\ beefyInfo' = SentInfo(beefyInfo, r)
              /\ wpc' = "send"
              /\ unreported' = unreported + 1
              /\ UNCHANGED <<err, ret>>
    /\ UNCHANGED <<callerVars, cancelled, chanVars, beefy, loopVars, msg,
                   built, calls, emitted, observed, cancelAt, discarded>>

\* mutant of BeefySend: a send that does not block (select with a default
\* case) and drops the record when the buffer is full
BeefySendOrDrop ==
    /\ wpc = "send"
    /\ IF Len(beefy) < BeefyCap
       THEN /\ beefy' = Append(beefy, beefyInfo)
            /\ emitted' = Append(emitted, beefyInfo)
            /\ unreported' = unreported - 1
       ELSE UNCHANGED <<beefy, emitted, unreported>>
    /\ err' = Nil
    /\ Logged(Nil)
    /\ UNCHANGED <<callerVars, cancelled, chanVars, loopVars, msg, beefyInfo,
                   tx, built, calls, observed, cancelAt, discarded>>

\* wr.beefy <- beefyInfo, then return nil: blocks while the buffer is full
BeefySend ==
    /\ wpc = "send"
    /\ Len(beefy) < BeefyCap
    /\ beefy' = Append(beefy, beefyInfo)
    /\ emitted' = Append(emitted, beefyInfo)
    /\ unreported' = unreported - 1
    /\ err' = Nil
    /\ Logged(Nil)
    /\ UNCHANGED <<callerVars, cancelled, chanVars, loopVars, msg, beefyInfo,
                   tx, built, calls, observed, cancelAt, discarded>>

\* mutant of CompleteSignatureCommitmentReturn: the tail of
\* WriteNewSignatureCommitment (status update and send) was copied along
CompleteReturnReports ==
    /\ wpc = "completeTx"
    /\ \E r \in TxHashes \cup {"error"} :
         IF r = "error"
         THEN /\ err' = SubmitError
              /\ Logged(SubmitError)
              /\ UNCHANGED <<tx, beefyInfo, unreported>>
         ELSE /\ tx' = r
              /\ beefyInfo' = SentInfo(beefyInfo, r)
              /\ wpc' = "send"
              /\ unreported' = unreported + 1
              /\ UNCHANGED <<err, ret>>
    /\ UNCHANGED <<callerVars, cancelled, chanVars, beefy, loopVars, msg,
                   built, calls, emitted, observed, cancelAt, discarded>>

\* contract.CompleteSignatureCommitment returns: an error, which
\* WriteCompleteSignatureCommitment returns, or the transaction, and nil is
\* returned
CompleteSignatureCommitmentReturn ==
    /\ wpc = "completeTx"
    /\ \E r \in TxHashes \cup {"error"} :
         IF r = "error"
         THEN /\ err' = SubmitError
              /\ Logged(SubmitError)
              /\ tx' = tx
         ELSE /\ tx' = r
              /\ err' = Nil
              /\ Logged(Nil)
    /\ UNCHANGED <<callerVars, cancelled, chanVars, beefy, loopVars, msg,
                   beefyInfo, built, calls, emitted, histVars>>

\* ------------------------------------------------------------- onDone
\* mutant of onDoneDiscard: the batch received by the drain is handed to the
\* range loop
onDoneDispatch ==
    /\ wpc = "drain"
    /\ GotBatch
    /\ ChanRecv
    /\ \E n \in 0..MaxBatchLen : msgsLen' = n
    /\ idx' = 0
    /\ late' = TRUE
    /\ wpc' = "range"
    /\ discarded' = discarded + 1
    /\ UNCHANGED <<callerVars, cancelled, beefy, recordVars, ret, observed,
                   cancelAt, unreported>>

\* for range wr.messages: one batch is received and discarded
onDoneDiscard ==
    /\ wpc = "drain"
    /\ GotBatch
    /\ ChanRecv
    /\ discarded' = discarded + 1
    /\ UNCHANGED <<callerVars, cancelled, beefy, wpc, loopVars, recordVars,
                   ret, observed, cancelAt, unreported>>

\* mutant of onDoneReturn: ctx.Err() is returned without the drain
onDoneReturnNoDrain ==
    /\ wpc = "drain"
    /\ wpc' = "returned"
    /\ ret' = ctxErr
    /\ UNCHANGED <<callerVars, cancelled, chanVars, beefy, loopVars,
                   recordVars, histVars>>

\* the range ends when wr.messages is closed and empty; return ctx.Err()
onDoneReturn ==
    /\ wpc = "drain"
    /\ ~GotBatch
    /\ closed
    /\ wpc' = "returned"
    /\ ret' = ctxErr
    /\ UNCHANGED <<callerVars, cancelled, chanVars, beefy, loopVars,
                   recordVars, histVars>>

\* ------------------------------------------------------------- system
Writer ==
    \/ writeLoopDone
    \/ writeLoopRecv
    \/ writeLoopRange
    \/ writeLoopRangeEnd
    \/ NewSignatureCommitmentReturn
    \/ BeefySend
    \/ CompleteSignatureCommitmentReturn
    \/ onDoneDiscard
    \/ onDoneReturn

Next ==
    \/ Start
    \/ RunWithoutStart
    \/ Cancel
    \/ ProducerSend
    \/ ProducerEnqueue
    \/ ProducerClose
    \/ BeefyRecv
    \/ writeLoopDone
    \/ writeLoopRecv
    \/ writeLoopRange
    \/ writeLoopRangeEnd
    \/ NewSignatureCommitmentReturn
    \/ BeefySend
    \/ CompleteSignatureCommitmentReturn
    \/ onDoneDiscard
    \/ onDoneReturn

Spec == Init /\ [][Next]_vars

\* the scheduler runs the loop goroutine whenever it can take a step; a
\* select whose ctx.Done() case is ready again and again takes it in the end
\* (the choice among ready cases is uniformly random); a send blocked on a
\* buffer that has room completes.  Nothing obliges the context's owner to
\* cancel, the producer to send or close, or the consumer of wr.beefy to
\* receive.
FairSpec ==
    /\ Spec
    /\ WF_vars(Writer)
    /\ SF_vars(writeLoopDone)
    /\ WF_vars(ProducerEnqueue)

\* FairSpec with a consumer of wr.beefy that always receives in the end
LiveSpec ==
    /\ FairSpec
    /\ WF_vars(BeefyRecv)

\* ------------------------------------------------------------- properties
Running == wpc \notin {"idle", "returned"}

WriteErrors == {BuilderError, UnknownContract, SubmitError}

\* the record wr.beefy must carry for msg after a successful initial
\* submission that returned tx
Expected ==
    [kind |-> "BeefyCommitmentInfo", Status |-> InitialVerificationTxSent,
     Payload |-> msg.Payload, InitialVerificationTxHash |-> tx]

\* C1: once the producer has closed the inbound channel, a running write loop
\* whose context is never cancelled eventually returns.
C1_ClosedChannelStopsLoop ==
    (closed /\ Running) ~> (cancelled \/ wpc = "returned")

\* C2: after a cancellation that found the write loop running, in whatever
\* state, a send the producer is blocked in eventually completes.
C2_SendsCompleteAfterCancel ==
    (cancelled /\ cancelAt \notin {"none", "idle", "returned"}
       /\ ppc = "sending")
      ~> (ppc # "sending")

\* C3: when the loop has returned through the ctx.Done() case, the inbound
\* channel is closed and empty, no sender is blocked on it, and the returned
\* value is the context's cancellation error.
C3_CancelExitAfterDrain ==
    (wpc = "returned" /\ observed) =>
        /\ closed
        /\ messages = 0
        /\ ppc # "sending"
        /\ ret = Canceled

C3_Witness ==
    /\ wpc = "returned"
    /\ observed
    /\ discarded > 0
    /\ ret = Canceled

\* C4 as stated: for no record of a batch received after the cancellation is
\* the builder or the binding called or a record sent on the outbound channel.
C4_LateBatchesDiscarded ==
    late => (calls = <<>> /\ emitted = <<>>)

\* C4 amended: once the select has taken the ctx.Done() case, no step calls
\* the builder or the binding, reads a further element or sends on the
\* outbound channel; every batch received from then on is only counted as
\* discarded.
C4_DrainDiscards ==
    [][observed =>
          /\ calls' = calls
          /\ emitted' = emitted
          /\ msg' = msg
          /\ idx' = idx
          /\ Len(beefy') <= Len(beefy)
          /\ wpc' \in {"drain", "returned"}]_vars

C4_Witness ==
    /\ wpc = "drain"
    /\ observed
    /\ discarded > 0
    /\ GotBatch

\* C5: a Witnessed record whose builder call and submit-initial call both
\* succeeded (tx is the returned handle) is sent exactly once on the outbound
\* channel, as a record with status InitialVerificationTxSent, the handle tx
\* and the payload of the input record: the loop either waits in that send or
\* has made exactly that one send.
C5_InitialSubmissionReported ==
    (msg.Status = CommitmentWitnessed /\ tx # NoTx) =>
        /\ calls = <<"BuildNewSignatureCommitmentMessage",
                     "NewSignatureCommitment">>
        /\ beefyInfo = Expected
        /\ \/ wpc = "send" /\ emitted = <<>>
           \/ wpc = "range" /\ emitted = <<Expected>>

C5_Witness ==
    /\ msg.Status = CommitmentWitnessed
    /\ msg.Payload = "P2"
    /\ tx \in TxHashes
    /\ wpc = "range"
    /\ emitted = <<Expected>>

\* C6: after a failed submit-initial of a Witnessed record (builder error,
\* unknown contract or binding error) nothing was sent for the record, its
\* status is still Witnessed, and the loop has not returned: it is in its
\* range loop, about to take the next record or the next batch.
C6_FailedInitialIsSkipped ==
    (msg.Status = CommitmentWitnessed /\ err \in WriteErrors) =>
        /\ emitted = <<>>
        /\ beefyInfo = msg
        /\ tx = NoTx
        /\ wpc = "range"
        /\ ret = "none"
        /\ idx <= msgsLen

C6_Witness ==
    /\ msg.Status = CommitmentWitnessed
    /\ err = SubmitError
    /\ wpc = "range"
    /\ idx < msgsLen

\* C7: for a record with status InitialVerificationTxSent or
\* InitialVerificationTxConfirmed neither the builder nor the binding is
\* called, nothing is sent, and the loop stays in its range loop.
C7_SentConfirmedNoAction ==
    (msg.Status \in {InitialVerificationTxSent,
                     InitialVerificationTxConfirmed}) =>
        /\ calls = <<>>
        /\ emitted = <<>>
        /\ err = "none"
        /\ tx = NoTx
        /\ wpc = "range"
        /\ ret = "none"

C7_Witness ==
    /\ msg.Status = InitialVerificationTxSent
    /\ wpc = "range"
    /\ idx < msgsLen

\* C8: for a ReadyToComplete record exactly one submit-complete attempt is
\* made (the complete builder, then at most one call of the binding), nothing
\* is sent, the record's status is unchanged, and the loop has not returned,
\* whether the attempt failed or succeeded.
C8_CompleteNoReport ==
    (msg.Status = ReadyToComplete) =>
        /\ calls \in {<<"BuildCompleteSignatureCommitmentMessage">>,
                      <<"BuildCompleteSignatureCommitmentMessage",
                        "CompleteSignatureCommitment">>}
        /\ emitted = <<>>
        /\ beefyInfo = msg
        /\ ret = "none"
        /\ \/ wpc = "completeTx" /\ err = "none"
           \/ wpc = "range" /\ err \in WriteErrors \cup {Nil}

C8_Witness ==
    /\ msg.Status = ReadyToComplete
    /\ err = SubmitError
    /\ wpc = "range"
    /\ GotBatch

\* C9: a record with a status outside the recognised set leads to no call and
\* no send and does not end the loop.
C9_UnknownStatusContinues ==
    (msg.Status = OtherStatus) =>
        /\ calls = <<>>
        /\ emitted = <<>>
        /\ err = "none"
        /\ wpc = "range"
        /\ ret = "none"
        /\ idx <= msgsLen

C9_Witness ==
    /\ msg.Status = OtherStatus
    /\ wpc = "range"
    /\ idx < msgsLen
    /\ GotBatch

\* C10: a batch element of another type makes writeLoop return the
\* invalid-message error in that very step, with no call and no send made for
\* it; once writeLoop has returned, no batch is received, no element is read,
\* no call is made and nothing is sent on the outbound channel.
C10_InvalidMessageIsFatal ==
    /\ [](msg.kind = "other" =>
            /\ wpc = "returned"
            /\ ret = InvalidMessage
            /\ calls = <<>>
            /\ emitted = <<>>)
    /\ [][wpc = "returned" =>
            /\ UNCHANGED <<wpc, ret, loopVars, recordVars, discarded>>
            /\ messages' >= messages
            /\ (ppc = "sending" /\ ppc' # "sending" => messages' > messages)
            /\ Len(beefy') <= Len(beefy)]_vars

C10_Witness ==
    /\ wpc = "returned"
    /\ ret = InvalidMessage
    /\ msg.kind = "other"
    /\ idx < msgsLen
    /\ GotBatch

\* the record is one the switch submits for
Actionable == msg.Status \in {CommitmentWitnessed, ReadyToComplete}

\* C11 as stated: with no registry entry for the light-client-bridge
\* identifier, every submit-initial and submit-complete attempt fails with
\* the "Unknown contract" error, without a call of the binding, a send or a
\* change of the record.
C11_AlwaysUnknownContract ==
    (contracts[LightClientBridgeContractID] = Nil /\ Actionable) =>
        /\ err = UnknownContract
        /\ Len(calls) = 1
        /\ emitted = <<>>
        /\ beefyInfo = msg

\* C11 amended: with no registry entry, every submit-initial and
\* submit-complete attempt fails before the binding is called: with the
\* builder's error when the builder fails, which comes first, and with the
\* "Unknown contract" error otherwise; nothing is sent and the record is
\* unchanged.
C11_NoEntryNoSubmission ==
    (contracts[LightClientBridgeContractID] = Nil /\ Actionable) =>
        /\ built \in {Nil, BuilderError}
        /\ err = (IF built = Nil THEN UnknownContract ELSE BuilderError)
        /\ calls \in {<<"BuildNewSignatureCommitmentMessage">>,
                      <<"BuildCompleteSignatureCommitmentMessage">>}
        /\ emitted = <<>>
        /\ beefyInfo = msg
        /\ tx = NoTx
        /\ unreported = 0
        /\ wpc = "range"

C11_Witness ==
    /\ contracts[LightClientBridgeContractID] = Nil
    /\ msg.Status = ReadyToComplete
    /\ built = Nil
    /\ err = UnknownContract
    /\ wpc = "range"

\* C12: once the context is cancelled with the write loop running, at
\* whatever point, and the producer has closed the inbound channel, the loop
\* eventually exits (the claim adds: through the drain).
C12_CancelLeadsToExit ==
    (cancelled /\ cancelAt \notin {"none", "idle", "returned"} /\ closed)
      ~> (wpc = "returned")

InitialCalls ==
    {"BuildNewSignatureCommitmentMessage", "NewSignatureCommitment"}

CompleteCalls ==
    {"BuildCompleteSignatureCommitmentMessage", "CompleteSignatureCommitment"}

\* C14: the builder and binding calls of submit-initial are made only for a
\* record with status CommitmentWitnessed, those of submit-complete only for
\* one with status ReadyToComplete; every record in wr.beefy, and every
\* record sent for msg, has status InitialVerificationTxSent and a
\* transaction hash, and a record is sent only for a msg with status
\* CommitmentWitnessed, whose payload it carries.
C14_OnlyActionableSubmitted ==
    /\ \A i \in 1..Len(calls) :
          /\ calls[i] \in InitialCalls => msg.Status = CommitmentWitnessed
          /\ calls[i] \in CompleteCalls => msg.Status = ReadyToComplete
    /\ wpc \in {"newTx", "send"} => msg.Status = CommitmentWitnessed
    /\ wpc = "completeTx" => msg.Status = ReadyToComplete
    /\ \A i \in 1..Len(beefy) :
          /\ beefy[i].Status = InitialVerificationTxSent
          /\ beefy[i].InitialVerificationTxHash \in TxHashes
    /\ \A i \in 1..Len(emitted) :
          /\ emitted[i].Status = InitialVerificationTxSent
          /\ emitted[i].Payload = msg.Payload
          /\ msg.Status = CommitmentWitnessed

C14_Witness ==
    /\ Len(beefy) = 1
    /\ wpc = "completeTx"
    /\ msg.Status = ReadyToComplete
    /\ cancelled

BindingCalls == {"NewSignatureCommitment", "CompleteSignatureCommitment"}

\* C15: no retry.  For the record the loop is at there is at most one call of
\* the binding, made after the builder; a call of the binding is in flight
\* only before any result for that record; and a call of the binding is made
\* only in the step that reads a further element of a batch, one with status
\* CommitmentWitnessed or ReadyToComplete.  So the calls of the binding never
\* outnumber the Witnessed and ReadyToComplete records received, and a failed
\* record is attempted again only when it is received again.
C15_NoRetry ==
    /\ [](/\ Len(calls) <= 2
          /\ Len(calls) >= 1 => calls[1] \notin BindingCalls
          /\ Len(calls) = 2 => calls[2] \in BindingCalls
          /\ wpc \in {"newTx", "completeTx"} =>
                (err = "none" /\ tx = NoTx /\ Len(calls) = 2))
    /\ [][/\ (calls' # calls /\ calls' # <<>>) =>
                /\ wpc = "range"
                /\ idx' = idx + 1
                /\ msg'.Status \in {CommitmentWitnessed, ReadyToComplete}
          /\ (wpc' \in {"newTx", "completeTx"} /\ wpc' # wpc) =>
                (wpc = "range" /\ idx' = idx + 1)
          /\ (wpc \in {"newTx", "completeTx"} /\ err' # err) =>
                wpc' = "range"
         ]_vars

C15_Witness ==
    /\ msg.Status = CommitmentWitnessed
    /\ err = SubmitError
    /\ Len(calls) = 2
    /\ wpc = "range"
    /\ idx = msgsLen
    /\ ~CanRecv

\* C16: whenever writeLoop has returned, the value is the invalid-message
\* error, caused by an element of another type, or the context's cancellation
\* error, returned through the ctx.Done() case; after a builder failure, an
\* unknown contract, a failed call of the binding or an unrecognised status
\* the loop has not returned.
C16_OnlyFatalReturns ==
    /\ wpc = "returned" =>
          /\ ret \in {InvalidMessage, Canceled}
          /\ ret = InvalidMessage => msg.kind = "other"
          /\ ret = Canceled => (observed /\ cancelled)
    /\ wpc # "returned" => ret = "none"
    /\ (err \in WriteErrors \/ msg.Status = OtherStatus) =>
          (wpc = "range" /\ ret = "none")

C16_Witness ==
    /\ wpc = "returned"
    /\ ret = Canceled
    /\ start = "ok"
    /\ beefy # <<>>

\* C17: when NewContract has failed and Start has returned its error, the
\* registry is as it was, the write loop has not been launched, and no batch
\* has been received, no element read, no call made and nothing sent, however
\* many batches the producer has ready.
C17_FailedStartLaunchesNothing ==
    (start = "failed") =>
        /\ contracts[LightClientBridgeContractID] = Nil
        /\ wpc = "idle"
        /\ ret = "none"
        /\ msg = NoMsg
        /\ idx = 0
        /\ msgsLen = 0
        /\ calls = <<>>
        /\ beefy = <<>>
        /\ discarded = 0
        /\ unreported = 0
        /\ ~observed

C17_Witness ==
    /\ start = "failed"
    /\ ppc = "sending"
    /\ messages = MsgCap
    /\ cancelled

\* C18: the registry is written in one step only, the step of Start that
\* also launches the loop from its idle state, and by no step after it; while
\* the loop launched by Start runs, and after it, the registry holds the
\* binding under the light-client-bridge identifier and no Write* call has
\* failed with the "Unknown contract" error.
C18_RegistryReadOnlyAfterStart ==
    /\ [](start = "ok" =>
            /\ contracts[LightClientBridgeContractID] = Contract
            /\ err # UnknownContract
            /\ wpc # "idle")
    /\ [][contracts' # contracts =>
            /\ start = "new"
            /\ start' = "ok"
            /\ wpc = "idle"
            /\ wpc' = "select"
            /\ contracts[LightClientBridgeContractID] = Nil]_vars

C18_Witness ==
    /\ start = "ok"
    /\ contracts[LightClientBridgeContractID] = Contract
    /\ wpc = "completeTx"
    /\ idx = 2

\* C19: in every reachable state the successful returns of the submit-initial
\* call of the binding outnumber the sends made on wr.beefy by exactly the
\* one send the loop is waiting in, if it is waiting in one; and for the
\* record the loop is at, a returned transaction and one send, made or waited
\* in, go together.
C19_SendsMatchSuccesses ==
    /\ unreported = (IF wpc = "send" THEN 1 ELSE 0)
    /\ (msg.Status = CommitmentWitnessed /\ tx # NoTx)
          <=> (Len(emitted) + (IF wpc = "send" THEN 1 ELSE 0) = 1)
    /\ Len(emitted) <= 1

C19_Witness ==
    /\ wpc = "send"
    /\ unreported = 1
    /\ Len(beefy) = BeefyCap
    /\ idx = 2
    /\ cancelled

\* C20: when an element of another type is met at position k of a batch, the
\* loop returns the invalid-message error in the step that reads it, at a
\* moment when the k-1 elements before it have been read and none of their
\* dispatches is still under way (no call in flight, no send awaited, every
\* successful submission reported), and that step takes nothing back from
\* wr.beefy; from then on no further element is read, no call is made and
\* nothing more is sent.
C20_PrefixDoneSuffixDropped ==
    /\ [](/\ msg.kind = "other" => ret = InvalidMessage
          /\ ret = InvalidMessage =>
                /\ msg.kind = "other"
                /\ wpc = "returned"
                /\ idx >= 1
                /\ idx <= msgsLen
                /\ unreported = 0
                /\ calls = <<>>
                /\ emitted = <<>>)
    /\ [][(ret' = InvalidMessage /\ ret # InvalidMessage) =>
            /\ wpc = "range"
            /\ unreported = 0
            /\ idx' = idx + 1
            /\ msgsLen' = msgsLen
            /\ beefy' = beefy]_vars
    /\ [][ret = InvalidMessage =>
            /\ idx' = idx
            /\ msgsLen' = msgsLen
            /\ msg' = msg
            /\ calls' = calls
            /\ emitted' = emitted
            /\ unreported' = unreported
            /\ Len(beefy') <= Len(beefy)]_vars

C20_Witness ==
    /\ ret = InvalidMessage
    /\ idx = 2
    /\ msgsLen = 3
    /\ Len(beefy) = 1
    /\ beefy[1].Status = InitialVerificationTxSent

====
